---- MODULE Spec2Model ----
(***************************************************************************)
(* The chat store of LLM Council (frontend/src/stores/chatStore.ts): the   *)
(* WebSocket session, the dispatch of a chat turn and the reconciliation   *)
(* of the multiplexed per-model event stream into messages.                *)
(*                                                                         *)
(* JavaScript objects are functions whose DOMAIN is the set of properties  *)
(* the object has: reading a property that is not in the DOMAIN is         *)
(* `undefined`, and the spread {...a, k: v} is [k |-> v] @@ a.  Strings    *)
(* are TLA+ strings and + on strings is \o.  Numbers that the store only   *)
(* copies (token counts, latency) are opaque numerals.  created_at is not   *)
(* represented, nor is the conversation list (conversations,               *)
(* setConversations).  Of the components, the model has what calls the     *)
(* store: ChatInput's submit, ResponseGrid's selection of a best response  *)
(* and HistorySidebar's loading of a conversation.                         *)
(***************************************************************************)
EXTENDS Integers, Sequences, FiniteSets, TLC

VARIABLES
  conversationId,    \* string | null
  messages,          \* Message[]
  isLoading,         \* boolean
  currentResponses,  \* Record<string, ModelResponse>, own keys in insertion order
  availableModels,   \* Model[]
  selectedModels,    \* string[]
  localStorage,      \* the item 'llm-council-selected-models'
  ws,                \* WebSocket | null: a socket number, or NoSocket
  wsConnected,       \* boolean
  sock,              \* readyState of every WebSocket the store has created
  sendCalls,         \* the ws.send calls made, with the readyState they met
  turn,              \* history: the turn in flight and the events it received
  nEvents,           \* history: the inbound events handled so far
  last,              \* history: the operation that made the last step
  now,               \* Date.now(), in ticks of the clock
  input,             \* ChatInput: the text typed (useState)
  selects,           \* ResponseGrid: the handleSelectBest calls awaiting their request
  fetches            \* HistorySidebar: the handleSelectConversation calls awaiting their fetch

vars == <<conversationId, messages, isLoading, currentResponses, availableModels,
          selectedModels, localStorage, ws, wsConnected, sock, sendCalls, turn, nEvents, last,
          now, input, selects, fetches>>

storeChat == <<conversationId, messages, isLoading, currentResponses>>
storeModels == <<availableModels, selectedModels, localStorage>>
channel == <<ws, wsConnected, sock>>
history == <<sendCalls, turn, nEvents>>
outside == <<now, input, selects, fetches>>     \* the state kept outside the store

(***************************************************************************)
(* Bounds and input sets                                                   *)
(***************************************************************************)
MaxSockets == 2      \* WebSocket objects alive (not yet collected) at a time
MaxSends == 2        \* ws.send calls in a run
MaxEvents == 3       \* inbound events handled in a run
MaxTicks == 1        \* ticks of the clock in a run
MaxFetches == 2      \* fetchConversation calls awaited at a time

Null == "null"
NoSocket == 0
SocketIds == 1..MaxSockets

ModelIds == {"m1", "m2"}
Catalog == <<[id |-> "m1", name |-> "Model One"], [id |-> "m2", name |-> "Model Two"]>>
Prompts == {"hi"}
BlankPrompts == {"", "  "}     \* prompts that are empty once trimmed
Tokens == {"a", "b"}
ConvIds == {"c1"}
ErrorTexts == {"boom"}
CompleteContents == {"ab"}

(***************************************************************************)
(* JavaScript objects                                                      *)
(***************************************************************************)
\* o.f for a property the object may lack: undefined reads as absent
Has(o, f) == f \in DOMAIN o

Undefined == "undefined"

\* o.f of a string-valued property, undefined when the object lacks it
Get(o, f) == IF Has(o, f) THEN o[f] ELSE Undefined

\* a string-valued v in a condition: null, undefined and '' are falsy
Truthy(v) == v \notin {Null, Undefined, ""}

\* v || d
OrElse(v, d) == IF Truthy(v) THEN v ELSE d

\* {...a, ...b}: b's properties win
Spread(a, b) == b @@ a

\* the properties of o among F (an object literal that copies them one by one)
Pick(o, F) == [f \in (DOMAIN o) \cap F |-> o[f]]

\* (o?.content || ''): undefined and '' both give ''
ContentOr(o) == IF Has(o, "content") THEN o.content ELSE ""

\* Object.keys(cr), as a set
Keys(cr) == {cr[i].key : i \in DOMAIN cr}

\* cr[k]; undefined (which spreads as the empty object) when k is no own key
Lookup(cr, k) ==
  IF k \in Keys(cr) THEN cr[CHOOSE i \in DOMAIN cr : cr[i].key = k].val ELSE <<>>

\* {...cr, [k]: v}: an own key keeps its place, a new key goes last
Assign(cr, k, v) ==
  IF k \in Keys(cr)
  THEN [i \in DOMAIN cr |-> IF cr[i].key = k THEN [key |-> k, val |-> v] ELSE cr[i]]
  ELSE Append(cr, [key |-> k, val |-> v])

\* availableModels.find(m => m.id === id)?.name || id
ModelNameOf(models, id) ==
  IF \E i \in DOMAIN models : models[i].id = id
  THEN models[CHOOSE i \in DOMAIN models :
                 models[i].id = id /\ \A j \in 1..(i - 1) : models[j].id # id].name
  ELSE id

\* array.filter(keep)
RECURSIVE Filter(_, _)
Filter(seq, keep) ==
  IF seq = <<>> THEN <<>>
  ELSE IF Head(seq) \in keep THEN <<Head(seq)>> \o Filter(Tail(seq), keep)
  ELSE Filter(Tail(seq), keep)

Range(seq) == {seq[i] : i \in DOMAIN seq}

(***************************************************************************)
(* Records of the store                                                    *)
(***************************************************************************)
\* seeded fault: the content of a stale buffer of the model is kept
FreshResponseKept(modelId, models) ==
  [content |-> ContentOr(Lookup(currentResponses, modelId)),
   model_id |-> modelId,
   model_name |-> ModelNameOf(models, modelId),
   isStreaming |-> TRUE,
   tokens_input |-> Null,
   tokens_output |-> Null,
   latency_ms |-> Null,
   error |-> Null]

\* the buffer sendMessage creates for one selected model
FreshResponse(modelId, models) ==
  [content |-> "",
   model_id |-> modelId,
   model_name |-> ModelNameOf(models, modelId),
   isStreaming |-> TRUE,
   tokens_input |-> Null,
   tokens_output |-> Null,
   latency_ms |-> Null,
   error |-> Null]

\* the for loop of sendMessage over selectedModels
RECURSIVE InitialResponses(_, _, _)
InitialResponses(ids, models, acc) ==
  IF ids = <<>> THEN acc
  ELSE InitialResponses(Tail(ids), models,
                        Assign(acc, Head(ids), FreshResponse(Head(ids), models)))

\* `user-${Date.now()}`, `${resp.model_id}-${Date.now()}`
MessageId(who) == who \o "-" \o ToString(now)

UserMessage(content) ==
  [id |-> MessageId("user"),
   content |-> content,
   model_id |-> Null,
   model_name |-> Null,
   tokens_input |-> Null,
   tokens_output |-> Null,
   latency_ms |-> Null,
   error |-> Null,
   role |-> "user"]

MessageFields ==
  {"content", "model_id", "model_name", "tokens_input", "tokens_output",
   "latency_ms", "error"}

\* the message chat_complete makes of one buffer
AssistantMessage(resp) ==
  Spread(Pick(resp, MessageFields),
         [id |-> MessageId(IF Has(resp, "model_id") THEN resp.model_id ELSE "undefined"),
          role |-> "assistant"])

\* Object.values(currentResponses).map(resp => ...)
AssistantMessages(cr) == [i \in DOMAIN cr |-> AssistantMessage(cr[i].val)]

(***************************************************************************)
(* Inbound events (WSMessage)                                              *)
(***************************************************************************)
\* model_complete payloads the server may send for model m
CompletePayloads(m) ==
  {[content |-> c, model_id |-> m, model_name |-> ModelNameOf(Catalog, m),
    tokens_input |-> "3", tokens_output |-> "5", latency_ms |-> "120",
    error |-> Null] : c \in CompleteContents}

\* seeded fault: the fragment is put in front of the accumulated content
HandleTokenPrepended(cr, m, t) ==
  Assign(cr, m, Spread(Lookup(cr, m), [content |-> t \o ContentOr(Lookup(cr, m))]))

\* case 'token'
HandleToken(cr, m, t) ==
  Assign(cr, m, Spread(Lookup(cr, m), [content |-> ContentOr(Lookup(cr, m)) \o t]))

\* seeded fault: the other models' buffers are not spread into the new mapping
HandleModelCompleteAlone(cr, data) ==
  Assign(<<>>, data.model_id,
         [content |-> data.content,
          model_id |-> data.model_id,
          model_name |-> data.model_name,
          isStreaming |-> FALSE,
          tokens_input |-> data.tokens_input,
          tokens_output |-> data.tokens_output,
          latency_ms |-> data.latency_ms,
          error |-> data.error])

\* case 'model_complete'
HandleModelComplete(cr, data) ==
  Assign(cr, data.model_id,
         [content |-> data.content,
          model_id |-> data.model_id,
          model_name |-> data.model_name,
          isStreaming |-> FALSE,
          tokens_input |-> data.tokens_input,
          tokens_output |-> data.tokens_output,
          latency_ms |-> data.latency_ms,
          error |-> data.error])

\* seeded fault: the error ends the whole turn's buffers, not only m's
HandleModelErrorAlone(cr, m, message) ==
  Assign(<<>>, m, Spread(Lookup(cr, m), [isStreaming |-> FALSE, error |-> message]))

\* seeded fault: the error retracts the partial content
HandleModelErrorCleared(cr, m, message) ==
  Assign(cr, m, Spread(Lookup(cr, m),
                       [content |-> "", isStreaming |-> FALSE, error |-> message]))

\* case 'error' with a model_id
HandleModelError(cr, m, message) ==
  Assign(cr, m, Spread(Lookup(cr, m), [isStreaming |-> FALSE, error |-> message]))

\* the model-tagged events the server may send for model m
ModelEvents(m) ==
  {[model_id |-> m, type |-> "token", token |-> t] : t \in Tokens}
    \cup {[model_id |-> m, data |-> d, type |-> "model_complete"] : d \in CompletePayloads(m)}
    \cup {[model_id |-> m, message |-> e, type |-> "error"] : e \in ErrorTexts}

\* the switch of _handleWSMessage on a model-tagged event, as it acts on the buffers
Apply(event, cr) ==
  CASE event.type = "token" -> HandleToken(cr, event.model_id, event.token)
    [] event.type = "model_complete" -> HandleModelComplete(cr, event.data)
    [] event.type = "error" -> HandleModelError(cr, event.model_id, event.message)

(***************************************************************************)
(* History variables                                                       *)
(***************************************************************************)
\* tok[m]: the tokens of m handled since the buffers were last reset, up to m's
\* terminal event; term[m]: the first terminal event handled for m, if any;
\* late: the models that got an event after their terminal event;
\* completed: the models a model_complete was handled for
NoLog ==
  [tok |-> [m \in ModelIds |-> ""], term |-> [m \in ModelIds |-> "none"],
   late |-> {}, completed |-> {}]

\* active: a chat request was transmitted and no chat_complete handled since;
\* clean: the buffers were not discarded since that request; models: the models
\* it selected; moved: the models whose buffer chat_complete has moved to messages
NoTurn ==
  Spread(NoLog, [models |-> {}, active |-> FALSE, clean |-> FALSE, moved |-> {}])

\* the log after an event of kind for model m
Logged(t, m, kind, token) ==
  IF t.term[m] # "none"
  THEN [t EXCEPT !.late = @ \cup {m},
                 !.completed = IF kind = "model_complete" THEN @ \cup {m} ELSE @]
  ELSE IF kind = "token" THEN [t EXCEPT !.tok[m] = @ \o token]
  ELSE [t EXCEPT !.term[m] = kind,
                 !.completed = IF kind = "model_complete" THEN @ \cup {m} ELSE @]

Did(op, m, res) == [m |-> m, op |-> op, res |-> res]

\* what localStorage.getItem('llm-council-selected-models') may hold
\* (absent, not JSON, or a JSON array of ids)
SavedSelections ==
  {[kind |-> "absent"], [kind |-> "corrupt"],
   [ids |-> <<"m2">>, kind |-> "array"], [ids |-> <<"gone">>, kind |-> "array"]}

\* the components are mounted: nothing typed, no request in flight
InitOutside ==
  /\ now = 0
  /\ input = ""
  /\ selects = {}
  /\ fetches = [awaited |-> <<>>, asked |-> Null]

(***************************************************************************)
(* Initial state: create<ChatStore>(...)                                   *)
(***************************************************************************)
Init ==
  /\ conversationId = Null
  /\ messages = <<>>
  /\ isLoading = FALSE
  /\ currentResponses = <<>>
  /\ availableModels = <<>>
  /\ selectedModels = <<>>
  /\ localStorage \in SavedSelections
  /\ ws = NoSocket
  /\ wsConnected = FALSE
  /\ sock = [s \in SocketIds |-> "FREE"]
  /\ sendCalls = <<>>
  /\ turn = NoTurn
  /\ nEvents = 0
  /\ last = Did("create", "-", "-")
  /\ InitOutside

(***************************************************************************)
(* Model selection                                                         *)
(***************************************************************************)
Ids(models) == [i \in DOMAIN models |-> models[i].id]

\* localStorage.setItem(..., JSON.stringify(ids))
Stringified(ids) == [ids |-> ids, kind |-> "array"]

\* the item in a session whose selection is ids: nothing is stored until the
\* default selection (every model) is changed
SavedBy(ids, models) == IF ids = Ids(models) THEN [kind |-> "absent"] ELSE Stringified(ids)

SetAvailableModels(models) ==
  /\ availableModels' = models
  /\ selectedModels' =
       IF localStorage.kind # "array" THEN Ids(models)
       ELSE IF Filter(localStorage.ids, Range(Ids(models))) = <<>> THEN Ids(models)
       ELSE Filter(localStorage.ids, Range(Ids(models)))
  /\ last' = Did("setAvailableModels", "-", "-")
  /\ UNCHANGED <<outside, storeChat, localStorage, channel, history>>

ToggleModel(modelId) ==
  /\ selectedModels' =
       IF modelId \in Range(selectedModels)
       THEN Filter(selectedModels, Range(selectedModels) \ {modelId})
       ELSE Append(selectedModels, modelId)
  /\ localStorage' = Stringified(selectedModels')
  /\ last' = Did("toggleModel", modelId, "-")
  /\ UNCHANGED <<outside, storeChat, availableModels, channel, history>>

SelectAllModels ==
  /\ selectedModels' = Ids(availableModels)
  /\ localStorage' = Stringified(Ids(availableModels))
  /\ last' = Did("selectAllModels", "-", "-")
  /\ UNCHANGED <<outside, storeChat, availableModels, channel, history>>

DeselectAllModels ==
  /\ selectedModels' = <<>>
  /\ localStorage' = Stringified(<<>>)
  /\ last' = Did("deselectAllModels", "-", "-")
  /\ UNCHANGED <<outside, storeChat, availableModels, channel, history>>

(***************************************************************************)
(* Conversations                                                           *)
(***************************************************************************)
\* the messages GET /conversations/{id} returns for a stored conversation
History(id) ==
  <<[id |-> "u-" \o id, content |-> "old", model_id |-> Null, model_name |-> Null,
     tokens_input |-> Null, tokens_output |-> Null, latency_ms |-> Null, error |-> Null,
     role |-> "user"],
    [id |-> "a1-" \o id, content |-> "x", model_id |-> "m1",
     model_name |-> "Model One", tokens_input |-> "3", tokens_output |-> "5",
     latency_ms |-> "120", error |-> Null, role |-> "assistant", is_selected |-> TRUE,
     parent_message_id |-> "u-" \o id],
    [id |-> "a2-" \o id, content |-> "y", model_id |-> "m2",
     model_name |-> "Model Two", tokens_input |-> "3", tokens_output |-> "5",
     latency_ms |-> "120", error |-> Null, role |-> "assistant", is_selected |-> FALSE,
     parent_message_id |-> "u-" \o id]>>

\* the buffers are dropped: the turn's event log starts again
Discarded(t) == Spread(t, Spread(NoLog, [clean |-> FALSE, moved |-> {}]))

SetCurrentConversation(id, msgs) ==
  /\ conversationId' = id
  /\ messages' = msgs
  /\ currentResponses' = <<>>
  /\ isLoading' = FALSE
  /\ turn' = Discarded(turn)
  /\ last' = Did("setCurrentConversation", "-", "-")
  /\ UNCHANGED <<now, input, selects, storeModels, channel, sendCalls, nEvents>>

ClearCurrentConversation ==
  /\ conversationId' = Null
  /\ messages' = <<>>
  /\ currentResponses' = <<>>
  /\ isLoading' = FALSE
  /\ turn' = Discarded(turn)
  /\ last' = Did("clearCurrentConversation", "-", "-")
  /\ UNCHANGED <<now, input, selects, storeModels, channel, sendCalls, nEvents>>

(***************************************************************************)
(* HistorySidebar                                                          *)
(***************************************************************************)
\* the conversations listed in the sidebar
Conversations == ConvIds \cup {"c2"}

\* fetches.awaited: the fetchConversation calls awaited, in the order they were
\* made, the one of the latest selection marked; fetches.asked (history): the
\* conversation the user selected last, unless its fetch failed
Remove(seq, k) == SubSeq(seq, 1, k - 1) \o SubSeq(seq, k + 1, Len(seq))

Superseded(seq) == [k \in DOMAIN seq |-> [seq[k] EXCEPT !.latest = FALSE]]

\* handleSelectConversation up to its await
HandleSelectConversation(id) ==
  /\ IF id = conversationId
     THEN /\ last' = Did("handleSelectConversation", "-", "ignored")
          /\ UNCHANGED fetches
     ELSE /\ Len(fetches.awaited) < MaxFetches
          /\ fetches' = [awaited |-> Append(Superseded(fetches.awaited),
                                            [id |-> id, latest |-> TRUE]),
                         asked |-> id]
          /\ last' = Did("handleSelectConversation", "-", id)
  /\ UNCHANGED <<storeChat, storeModels, channel, history, now, input, selects>>

\* handleSelectConversation after its await, the fetch having succeeded
FetchConversationOk(k) ==
  /\ k \in DOMAIN fetches.awaited
  /\ SetCurrentConversation(fetches.awaited[k].id, History(fetches.awaited[k].id))
  /\ fetches' = [fetches EXCEPT !.awaited = Remove(@, k)]

\* the fetch having failed: the catch logs it
FetchConversationFailed(k) ==
  /\ k \in DOMAIN fetches.awaited
  /\ fetches' = [awaited |-> Remove(fetches.awaited, k),
                 asked |-> IF fetches.awaited[k].latest THEN Null ELSE fetches.asked]
  /\ last' = Did("fetchConversation", "-", "failed")
  /\ UNCHANGED <<storeChat, storeModels, channel, history, now, input, selects>>

\* handleNewConversation
HandleNewConversation ==
  /\ ClearCurrentConversation
  /\ fetches' = [awaited |-> Superseded(fetches.awaited), asked |-> Null]

(***************************************************************************)
(* The WebSocket channel                                                   *)
(* readyState: CONNECTING, OPEN, CLOSING; CLOSED is a socket whose onclose *)
(* has run and whose reconnect timer is pending; FREE is no socket.        *)
(***************************************************************************)
IsOpen(w) == w # NoSocket /\ sock[w] = "OPEN"

\* new WebSocket(WS_URL) takes the first unused socket number of sk
FirstFree(sk) == CHOOSE s \in SocketIds : sk[s] = "FREE" /\ \A r \in 1..(s - 1) : sk[r] # "FREE"

\* the state connectWebSocket leaves, given the sockets sk
Connected(sk) ==
  /\ sock' = [sk EXCEPT ![FirstFree(sk)] = "CONNECTING"]
  /\ ws' = FirstFree(sk)

CanCreate(sk) == \E s \in SocketIds : sk[s] = "FREE"

ConnectWebSocket ==
  /\ IsOpen(ws) \/ CanCreate(sock)
  /\ IF IsOpen(ws)
     THEN /\ last' = Did("connectWebSocket", "-", "already open")
          /\ UNCHANGED <<ws, sock>>
     ELSE /\ Connected(sock)
          /\ last' = Did("connectWebSocket", "-", "created")
  /\ UNCHANGED <<outside, storeChat, storeModels, wsConnected, history>>

\* newWs.onopen
OnOpen(s) ==
  /\ sock[s] = "CONNECTING"
  /\ sock' = [sock EXCEPT ![s] = "OPEN"]
  /\ wsConnected' = TRUE
  /\ last' = Did("onopen", "-", "-")
  /\ UNCHANGED <<outside, storeChat, storeModels, ws, history>>

\* the server starts the closing handshake: readyState changes, no callback runs
StartClosing(s) ==
  /\ sock[s] = "OPEN"
  /\ sock' = [sock EXCEPT ![s] = "CLOSING"]
  /\ last' = Did("closing", "-", "-")
  /\ UNCHANGED <<outside, storeChat, storeModels, ws, wsConnected, history>>

\* seeded fault: the close ends the turn and drops its buffers
OnCloseResolving(s) ==
  /\ sock[s] \in {"CONNECTING", "OPEN", "CLOSING"}
  /\ sock' = [sock EXCEPT ![s] = "CLOSED"]
  /\ wsConnected' = FALSE
  /\ ws' = NoSocket
  /\ isLoading' = FALSE
  /\ currentResponses' = <<>>
  /\ last' = Did("onclose", "-", "-")
  /\ UNCHANGED <<outside, conversationId, messages, storeModels, history>>

\* newWs.onclose: the connection failed, dropped or finished closing
OnClose(s) ==
  /\ sock[s] \in {"CONNECTING", "OPEN", "CLOSING"}
  /\ sock' = [sock EXCEPT ![s] = "CLOSED"]
  /\ wsConnected' = FALSE
  /\ ws' = NoSocket
  /\ last' = Did("onclose", "-", "-")
  /\ UNCHANGED <<outside, storeChat, storeModels, history>>

\* seeded fault: the timer callback never reconnects
ReconnectTimerIdle(s) ==
  /\ sock[s] = "CLOSED"
  /\ sock' = [sock EXCEPT ![s] = "FREE"]
  /\ last' = Did("reconnectTimer", "-", "skipped")
  /\ UNCHANGED <<outside, storeChat, storeModels, ws, wsConnected, history>>

\* the setTimeout callback of onclose, 3000 ms later
ReconnectTimer(s) ==
  /\ sock[s] = "CLOSED"
  /\ IF ws = NoSocket
     THEN /\ Connected([sock EXCEPT ![s] = "FREE"])
          /\ last' = Did("reconnectTimer", "-", "created")
     ELSE /\ sock' = [sock EXCEPT ![s] = "FREE"]
          /\ last' = Did("reconnectTimer", "-", "skipped")
          /\ UNCHANGED ws
  /\ UNCHANGED <<outside, storeChat, storeModels, wsConnected, history>>

DisconnectWebSocket ==
  /\ IF ws # NoSocket
     THEN /\ sock' = [sock EXCEPT ![ws] = "CLOSING"]
          /\ ws' = NoSocket
          /\ wsConnected' = FALSE
          /\ last' = Did("disconnectWebSocket", "-", "closed")
     ELSE /\ last' = Did("disconnectWebSocket", "-", "no socket")
          /\ UNCHANGED <<ws, wsConnected, sock>>
  /\ UNCHANGED <<outside, storeChat, storeModels, history>>

(***************************************************************************)
(* sendMessage                                                             *)
(***************************************************************************)
\* ws.send(data): throws in CONNECTING, discards the data in CLOSING/CLOSED,
\* transmits in OPEN
SendOutcome(readyState) ==
  CASE readyState = "OPEN" -> "sent"
    [] readyState = "CONNECTING" -> "threw"
    [] OTHER -> "dropped"

\* seeded fault: the request never names the conversation
ChatRequestUnbound(message) ==
  [models |-> selectedModels,
   message |-> message,
   type |-> "chat",
   conversation_id |-> Null]

ChatRequest(message) ==
  [models |-> selectedModels,
   message |-> message,
   type |-> "chat",
   conversation_id |-> conversationId]

\* the turn a transmitted chat request starts
Started(models, inFlight) ==
  Spread(NoLog, [models |-> Range(models), active |-> inFlight, clean |-> TRUE,
                 moved |-> {}])

\* seeded fault: the user message is added after ws.send, so not when it throws
DispatchSendFirst(message) ==
  /\ Len(sendCalls) < MaxSends
  /\ isLoading' = TRUE
  /\ currentResponses' = InitialResponses(selectedModels, availableModels, <<>>)
  /\ messages' = IF sock[ws] = "CONNECTING" THEN messages
                 ELSE Append(messages, UserMessage(message))
  /\ sendCalls' = Append(sendCalls,
                         [data |-> ChatRequest(message), readyState |-> sock[ws]])
  /\ turn' = IF sock[ws] = "OPEN" THEN Started(selectedModels, TRUE)
             ELSE Discarded(turn)
  /\ last' = Did("sendMessage", "-", SendOutcome(sock[ws]))
  /\ UNCHANGED <<now, selects, fetches, conversationId, storeModels, channel, nEvents>>

\* the body of sendMessage once both guards have passed
Dispatch(message) ==
  /\ Len(sendCalls) < MaxSends
  /\ isLoading' = TRUE
  /\ currentResponses' = InitialResponses(selectedModels, availableModels, <<>>)
  /\ messages' = Append(messages, UserMessage(message))
  /\ sendCalls' = Append(sendCalls,
                         [data |-> ChatRequest(message), readyState |-> sock[ws]])
  /\ turn' = IF sock[ws] = "OPEN" THEN Started(selectedModels, TRUE)
             ELSE Discarded(turn)
  /\ last' = Did("sendMessage", "-", SendOutcome(sock[ws]))
  /\ UNCHANGED <<now, selects, fetches, conversationId, storeModels, channel, nEvents>>

\* seeded fault: the selection is not tested
SendMessageAnySelection(message) ==
  IF ws = NoSocket \/ ~wsConnected
  THEN /\ last' = Did("sendMessage", "-", "not connected")
       /\ UNCHANGED <<now, selects, fetches, storeChat, storeModels, channel, history>>
  ELSE Dispatch(message)

SendMessage(message) ==
  IF ws = NoSocket \/ ~wsConnected
  THEN /\ last' = Did("sendMessage", "-", "not connected")
       /\ UNCHANGED <<now, selects, fetches, storeChat, storeModels, channel, history>>
  ELSE IF Len(selectedModels) = 0
  THEN /\ last' = Did("sendMessage", "-", "no models")
       /\ UNCHANGED <<now, selects, fetches, storeChat, storeModels, channel, history>>
  ELSE Dispatch(message)

(***************************************************************************)
(* ChatInput                                                               *)
(***************************************************************************)
\* what may be typed
Typed == Prompts \cup BlankPrompts \cup {" hi "}

\* the characters of a text
Chars(text) ==
  CASE text = "" -> <<>>
    [] text = "  " -> <<" ", " ">>
    [] text = "hi" -> <<"h", "i">>
    [] text = " hi " -> <<" ", "h", "i", " ">>

RECURSIVE TrimStart(_)
TrimStart(cs) == IF cs # <<>> /\ Head(cs) = " " THEN TrimStart(Tail(cs)) ELSE cs

RECURSIVE TrimEnd(_)
TrimEnd(cs) ==
  IF cs # <<>> /\ cs[Len(cs)] = " " THEN TrimEnd(SubSeq(cs, 1, Len(cs) - 1)) ELSE cs

RECURSIVE Join(_)
Join(cs) == IF cs = <<>> THEN "" ELSE Head(cs) \o Join(Tail(cs))

\* text.trim()
Trim(text) == Join(TrimEnd(TrimStart(Chars(text))))

\* onChange={(e) => setInput(e.target.value)}
SetInput(text) ==
  /\ input # text
  /\ input' = text
  /\ last' = Did("setInput", "-", text)
  /\ UNCHANGED <<storeChat, storeModels, channel, history, now, selects, fetches>>

CanSubmit ==
  /\ Truthy(Trim(input))
  /\ wsConnected
  /\ Len(selectedModels) > 0
  /\ ~isLoading

\* seeded fault: the text is sent as typed
HandleSubmitUntrimmed ==
  IF ~CanSubmit
  THEN /\ last' = Did("handleSubmit", "-", "ignored")
       /\ UNCHANGED <<outside, storeChat, storeModels, channel, history>>
  ELSE /\ SendMessage(input)
       /\ input' = ""

\* the form's onSubmit, and Enter without Shift in the textarea
HandleSubmit ==
  IF ~CanSubmit
  THEN /\ last' = Did("handleSubmit", "-", "ignored")
       /\ UNCHANGED <<outside, storeChat, storeModels, channel, history>>
  ELSE /\ SendMessage(Trim(input))
       /\ input' = ""

(***************************************************************************)
(* _handleWSMessage, run by onmessage of a socket that is OPEN             *)
(***************************************************************************)
Receiving ==
  /\ \E s \in SocketIds : sock[s] = "OPEN"
  /\ nEvents < MaxEvents
  /\ nEvents' = nEvents + 1

ConversationStarted(id) ==
  /\ Receiving
  /\ conversationId' = id
  /\ last' = Did("conversation_started", "-", "-")
  /\ UNCHANGED <<outside, messages, isLoading, currentResponses, storeModels, channel,
                 sendCalls, turn>>

Token(m, t) ==
  /\ Receiving
  /\ currentResponses' = HandleToken(currentResponses, m, t)
  /\ turn' = Logged(turn, m, "token", t)
  /\ last' = Did("token", m, t)
  /\ UNCHANGED <<outside, conversationId, messages, isLoading, storeModels, channel, sendCalls>>

ModelComplete(data) ==
  /\ Receiving
  /\ currentResponses' = HandleModelComplete(currentResponses, data)
  /\ turn' = Logged(turn, data.model_id, "model_complete", "")
  /\ last' = Did("model_complete", data.model_id, data.content)
  /\ UNCHANGED <<outside, conversationId, messages, isLoading, storeModels, channel, sendCalls>>

\* seeded fault: the new messages are put in front of the existing ones
ChatCompletePrepended ==
  /\ Receiving
  /\ isLoading' = FALSE
  /\ messages' = AssistantMessages(currentResponses) \o messages
  /\ currentResponses' = <<>>
  /\ turn' = [turn EXCEPT !.active = FALSE,
                          !.tok = NoLog.tok,
                          !.moved = @ \cup Keys(currentResponses)]
  /\ last' = Did("chat_complete", "-", "-")
  /\ UNCHANGED <<outside, conversationId, storeModels, channel, sendCalls>>

ChatComplete ==
  /\ Receiving
  /\ isLoading' = FALSE
  /\ messages' = messages \o AssistantMessages(currentResponses)
  /\ currentResponses' = <<>>
  /\ turn' = [turn EXCEPT !.active = FALSE,
                          !.tok = NoLog.tok,
                          !.moved = @ \cup Keys(currentResponses)]
  /\ last' = Did("chat_complete", "-", "-")
  /\ UNCHANGED <<outside, conversationId, storeModels, channel, sendCalls>>

ModelError(m, message) ==
  /\ Receiving
  /\ currentResponses' = HandleModelError(currentResponses, m, message)
  /\ turn' = Logged(turn, m, "error", "")
  /\ last' = Did("error", m, message)
  /\ UNCHANGED <<outside, conversationId, messages, isLoading, storeModels, channel, sendCalls>>

\* case 'error' without a model_id
TurnError(message) ==
  /\ Receiving
  /\ isLoading' = FALSE
  /\ last' = Did("error", "-", message)
  /\ UNCHANGED <<outside, conversationId, messages, currentResponses, storeModels, channel,
                 sendCalls, turn>>

(***************************************************************************)
(* ResponseGrid and ModelCard: selecting the best response                 *)
(***************************************************************************)
\* store.setMessages
SetMessages(msgs) == messages' = msgs

\* the messages ResponseGrid groups into turns: an assistant message before the
\* first user message belongs to no turn and gets no card
InTurn(msgs) ==
  {i \in DOMAIN msgs : msgs[i].role = "assistant" /\ \E j \in 1..(i - 1) : msgs[j].role = "user"}

\* seeded fault: the card of a streaming buffer offers the selection under its model id
StreamingCardSelectable(response) ==
  [response |-> Spread(response, [message_id |-> Get(response, "model_id")]),
   showSelect |-> TRUE, onSelect |-> TRUE]

\* <ModelCard key={response.model_id} response={response} />
StreamingCard(response) == [response |-> response, showSelect |-> FALSE, onSelect |-> FALSE]

\* the card of a finalized assistant message
MessageCard(msg) ==
  [response |->
     Spread([content |-> OrElse(Get(msg, "content"), ""),
             model_id |-> OrElse(Get(msg, "model_id"), ""),
             model_name |-> OrElse(Get(msg, "model_name"), ""),
             isStreaming |-> FALSE,
             tokens_input |-> Get(msg, "tokens_input"),
             tokens_output |-> Get(msg, "tokens_output"),
             latency_ms |-> Get(msg, "latency_ms"),
             error |-> Get(msg, "error"),
             message_id |-> Get(msg, "id")],
            Pick(msg, {"is_selected"})),
   showSelect |-> TRUE, onSelect |-> TRUE]

\* the cards ResponseGrid renders; the streaming ones need a turn or no turn at
\* all, which is every case but messages of assistants only
Cards ==
  {MessageCard(messages[i]) : i \in InTurn(messages)}
    \cup IF messages # <<>> /\ \A i \in DOMAIN messages : messages[i].role # "user"
         THEN {}
         ELSE {StreamingCard(currentResponses[k].val) : k \in DOMAIN currentResponses}

\* ModelCard renders the Select button
ShowsSelect(card) ==
  /\ card.showSelect
  /\ Truthy(Get(card.response, "message_id"))
  /\ ~(Has(card.response, "isStreaming") /\ card.response.isStreaming)
  /\ ~Truthy(Get(card.response, "error"))

\* messages.map(msg => ...) of handleSelectBest
Selected(msgs, messageId) ==
  LET found == {i \in DOMAIN msgs : Get(msgs[i], "id") = messageId}
      selectedMsg == IF found = {} THEN <<>>
                     ELSE msgs[CHOOSE i \in found : \A j \in found : i <= j]
  IN  [i \in DOMAIN msgs |->
         IF Get(msgs[i], "id") = messageId THEN Spread(msgs[i], [is_selected |-> TRUE])
         ELSE IF /\ Truthy(Get(selectedMsg, "parent_message_id"))
                 /\ Get(msgs[i], "parent_message_id") = Get(selectedMsg, "parent_message_id")
              THEN Spread(msgs[i], [is_selected |-> FALSE])
              ELSE msgs[i]]

\* handleSelectBest up to its await: the request is made, and the function
\* keeps the messages of the render it was created in
HandleSelectBest(messageId) ==
  /\ [messages |-> messages, messageId |-> messageId] \notin selects
  /\ selects' = selects \cup {[messages |-> messages, messageId |-> messageId]}
  /\ last' = Did("handleSelectBest", "-", messageId)
  /\ UNCHANGED <<storeChat, storeModels, channel, history, now, input, fetches>>

\* ModelCard: a click on the Select button
HandleSelect(card) ==
  /\ ShowsSelect(card)
  /\ card.onSelect
  /\ Truthy(Get(card.response, "message_id"))
  /\ HandleSelectBest(card.response.message_id)

\* handleSelectBest after its await, the request having succeeded
SelectBestResponseOk(r) ==
  /\ r \in selects
  /\ selects' = selects \ {r}
  /\ SetMessages(Selected(r.messages, r.messageId))
  /\ last' = Did("selectBestResponse", "-", "ok")
  /\ UNCHANGED <<conversationId, isLoading, currentResponses, storeModels, channel, history,
                 now, input, fetches>>

\* the request having failed: the catch logs it
SelectBestResponseFailed(r) ==
  /\ r \in selects
  /\ selects' = selects \ {r}
  /\ last' = Did("selectBestResponse", "-", "failed")
  /\ UNCHANGED <<storeChat, storeModels, channel, history, now, input, fetches>>

\* the clock advances
Tick ==
  /\ now < MaxTicks
  /\ now' = now + 1
  /\ last' = Did("tick", "-", "-")
  /\ UNCHANGED <<storeChat, storeModels, channel, history, input, selects, fetches>>

(***************************************************************************)
(* The specification                                                       *)
(***************************************************************************)
Next ==
  \/ SetAvailableModels(Catalog)
  \/ \E m \in ModelIds : ToggleModel(m)
  \/ SelectAllModels
  \/ DeselectAllModels
  \/ \E id \in ConvIds : SetCurrentConversation(id, History(id)) /\ UNCHANGED fetches
  \/ ClearCurrentConversation /\ UNCHANGED fetches
  \/ ConnectWebSocket
  \/ DisconnectWebSocket
  \/ \E s \in SocketIds : OnOpen(s)
  \/ \E s \in SocketIds : StartClosing(s)
  \/ \E s \in SocketIds : OnClose(s)
  \/ \E s \in SocketIds : ReconnectTimer(s)
  \/ \E p \in Prompts : SendMessage(p) /\ UNCHANGED input
  \/ \E p \in BlankPrompts : SendMessage(p) /\ UNCHANGED input
  \/ \E id \in ConvIds : ConversationStarted(id)
  \/ \E m \in ModelIds, t \in Tokens : Token(m, t)
  \/ \E m \in ModelIds : \E data \in CompletePayloads(m) : ModelComplete(data)
  \/ ChatComplete
  \/ \E m \in ModelIds, e \in ErrorTexts : ModelError(m, e)
  \/ \E e \in ErrorTexts : TurnError(e)
  \/ Tick
  \/ \E card \in Cards : HandleSelect(card)
  \/ \E r \in selects : SelectBestResponseOk(r)
  \/ \E r \in selects : SelectBestResponseFailed(r)
  \/ \E text \in Typed : SetInput(text)
  \/ HandleSubmit
  \/ \E id \in Conversations : HandleSelectConversation(id)
  \/ \E k \in DOMAIN fetches.awaited : FetchConversationOk(k)
  \/ \E k \in DOMAIN fetches.awaited : FetchConversationFailed(k)
  \/ HandleNewConversation

Spec == Init /\ [][Next]_vars

(***************************************************************************)
(* An open session: the models are loaded and the socket is open (the      *)
(* state after setAvailableModels, connectWebSocket and onopen), and only  *)
(* the chat is exercised.  No action left out here reads or writes         *)
(* conversationId, messages, isLoading or currentResponses.                *)
(***************************************************************************)
InitTurn ==
  /\ conversationId = Null
  /\ messages = <<>>
  /\ isLoading = FALSE
  /\ currentResponses = <<>>
  /\ availableModels = Catalog
  /\ selectedModels \in {<<"m1">>, <<"m1", "m2">>}
  /\ localStorage = SavedBy(selectedModels, Catalog)
  /\ ws = 1
  /\ wsConnected = TRUE
  /\ sock = [s \in SocketIds |-> IF s = 1 THEN "OPEN" ELSE "FREE"]
  /\ sendCalls = <<>>
  /\ turn = NoTurn
  /\ nEvents = 0
  /\ last = Did("onopen", "-", "-")
  /\ InitOutside

NextTurn ==
  \/ \E id \in ConvIds : SetCurrentConversation(id, History(id)) /\ UNCHANGED fetches
  \/ ClearCurrentConversation /\ UNCHANGED fetches
  \/ \E p \in Prompts : SendMessage(p) /\ UNCHANGED input
  \/ \E id \in ConvIds : ConversationStarted(id)
  \/ \E m \in ModelIds, t \in Tokens : Token(m, t)
  \/ \E m \in ModelIds : \E data \in CompletePayloads(m) : ModelComplete(data)
  \/ ChatComplete
  \/ \E m \in ModelIds, e \in ErrorTexts : ModelError(m, e)
  \/ \E e \in ErrorTexts : TurnError(e)

SpecTurn == InitTurn /\ [][NextTurn]_vars

(***************************************************************************)
(* The channel: connecting, closing, reconnecting and sendMessage, with a  *)
(* silent server.  It starts from the store's initial state with the       *)
(* models loaded (setAvailableModels) and all or (deselectAllModels) none  *)
(* of them selected.                                                       *)
(***************************************************************************)
InitChannel ==
  /\ conversationId = Null
  /\ messages = <<>>
  /\ isLoading = FALSE
  /\ currentResponses = <<>>
  /\ availableModels = Catalog
  /\ selectedModels \in {<<>>, Ids(Catalog)}
  /\ localStorage = SavedBy(selectedModels, Catalog)
  /\ ws = NoSocket
  /\ wsConnected = FALSE
  /\ sock = [s \in SocketIds |-> "FREE"]
  /\ sendCalls = <<>>
  /\ turn = NoTurn
  /\ nEvents = 0
  /\ last = Did("setAvailableModels", "-", "-")
  /\ InitOutside

NextChannel ==
  \/ ConnectWebSocket
  \/ DisconnectWebSocket
  \/ \E s \in SocketIds : OnOpen(s)
  \/ \E s \in SocketIds : StartClosing(s)
  \/ \E s \in SocketIds : OnClose(s)
  \/ \E s \in SocketIds : ReconnectTimer(s)
  \/ \E p \in Prompts : SendMessage(p) /\ UNCHANGED input

SpecChannel == InitChannel /\ [][NextChannel]_vars

\* a socket that is closing does close (the closing handshake ends or times
\* out), and a timer that was set does fire
ClosingEnds(s) == sock[s] = "CLOSING" /\ OnClose(s)

FairChannel ==
  \A s \in SocketIds : WF_vars(ClosingEnds(s)) /\ WF_vars(ReconnectTimer(s))

SpecChannelFair == SpecChannel /\ FairChannel

(***************************************************************************)
(* The event stream of an open session: sendMessage and the inbound events *)
(* of its turns, in any order the server may send them.                    *)
(***************************************************************************)
NextStream ==
  \/ \E p \in Prompts : SendMessage(p) /\ UNCHANGED input
  \/ \E m \in ModelIds, t \in Tokens : Token(m, t)
  \/ \E m \in ModelIds : \E data \in CompletePayloads(m) : ModelComplete(data)
  \/ ChatComplete
  \/ \E m \in ModelIds, e \in ErrorTexts : ModelError(m, e)

SpecStream == InitTurn /\ [][NextStream]_vars

(***************************************************************************)
(* The prompts of an open session: sendMessage called with any text, and   *)
(* the turns' tokens and chat_complete.                                    *)
(***************************************************************************)
NextPrompt ==
  \/ \E p \in Prompts : SendMessage(p) /\ UNCHANGED input
  \/ \E p \in BlankPrompts : SendMessage(p) /\ UNCHANGED input
  \/ \E m \in ModelIds, t \in Tokens : Token(m, t)
  \/ ChatComplete

SpecPrompt == InitTurn /\ [][NextPrompt]_vars

(***************************************************************************)
(* A connection that drops: an open session whose socket may close and be  *)
(* replaced by the reconnect timer while a turn streams.                   *)
(***************************************************************************)
NextDrop ==
  \/ \E p \in Prompts : SendMessage(p) /\ UNCHANGED input
  \/ \E m \in ModelIds, t \in Tokens : Token(m, t)
  \/ \E m \in ModelIds : \E data \in CompletePayloads(m) : ModelComplete(data)
  \/ \E s \in SocketIds : OnClose(s)
  \/ \E s \in SocketIds : ReconnectTimer(s)
  \/ \E s \in SocketIds : OnOpen(s)

SpecDrop == InitTurn /\ [][NextDrop]_vars

(***************************************************************************)
(* Sending on a channel that is being set up: sendMessage called with any  *)
(* text before, while and after the sockets connect.                       *)
(***************************************************************************)
NextSend ==
  \/ ConnectWebSocket
  \/ \E s \in SocketIds : OnOpen(s)
  \/ \E p \in Prompts : SendMessage(p) /\ UNCHANGED input
  \/ \E p \in BlankPrompts : SendMessage(p) /\ UNCHANGED input

SpecSend == InitChannel /\ [][NextSend]_vars

(***************************************************************************)
(* Selecting the best response: an open session in which a stored          *)
(* conversation is loaded or a turn runs to its chat_complete, and the     *)
(* Select buttons of the cards are clicked.                                *)
(***************************************************************************)
InitSelect ==
  /\ conversationId \in {Null} \cup ConvIds
  /\ messages = IF conversationId = Null THEN <<>> ELSE History(conversationId)
  /\ isLoading = FALSE
  /\ currentResponses = <<>>
  /\ availableModels = Catalog
  /\ selectedModels \in {<<"m1">>, <<"m1", "m2">>}
  /\ localStorage = SavedBy(selectedModels, Catalog)
  /\ ws = 1
  /\ wsConnected = TRUE
  /\ sock = [s \in SocketIds |-> IF s = 1 THEN "OPEN" ELSE "FREE"]
  /\ sendCalls = <<>>
  /\ turn = IF conversationId = Null THEN NoTurn ELSE Discarded(NoTurn)
  /\ nEvents = 0
  /\ last = IF conversationId = Null THEN Did("onopen", "-", "-")
            ELSE Did("setCurrentConversation", "-", "-")
  /\ InitOutside

\* the server answers the turn in flight in order: one model_complete or error
\* for each model of the request, then chat_complete; one selection is awaited
\* at a time
Answered == \A m \in turn.models : turn.term[m] # "none"

NextSelect ==
  \/ \E p \in Prompts : SendMessage(p) /\ UNCHANGED input
  \/ \E m \in ModelIds : \E data \in CompletePayloads(m) :
       turn.active /\ m \in turn.models /\ turn.term[m] = "none" /\ ModelComplete(data)
  \/ \E m \in ModelIds, e \in ErrorTexts :
       turn.active /\ m \in turn.models /\ turn.term[m] = "none" /\ ModelError(m, e)
  \/ turn.active /\ Answered /\ ChatComplete
  \/ Tick
  \/ selects = {} /\ \E card \in Cards : HandleSelect(card)
  \/ \E r \in selects : SelectBestResponseOk(r)
  \/ \E r \in selects : SelectBestResponseFailed(r)

SpecSelect == InitSelect /\ [][NextSelect]_vars

(***************************************************************************)
(***************************************************************************)
(* The chat input: text is typed and submitted while the socket connects   *)
(* and opens, with all or none of the models selected.                     *)
(***************************************************************************)
(* The sidebar: conversations are selected, their fetches succeed or fail  *)
(* in any order, and a new conversation is started.                        *)
(***************************************************************************)
NextHistory ==
  \/ \E id \in Conversations : HandleSelectConversation(id)
  \/ \E k \in DOMAIN fetches.awaited : FetchConversationOk(k)
  \/ \E k \in DOMAIN fetches.awaited : FetchConversationFailed(k)
  \/ HandleNewConversation

SpecHistory == InitTurn /\ [][NextHistory]_vars

(***************************************************************************)
NextInput ==
  \/ ConnectWebSocket
  \/ \E s \in SocketIds : OnOpen(s)
  \/ \E s \in SocketIds : OnClose(s)
  \/ \E text \in Typed : SetInput(text)
  \/ HandleSubmit

SpecInput == InitChannel /\ [][NextInput]_vars

(* Vocabulary of the properties                                            *)
(***************************************************************************)
Terminal(r) == Has(r, "isStreaming") /\ r.isStreaming = FALSE
Streaming(r) == ~Terminal(r)

\* the chat requests that reached the server
Transmitted(calls) == SelectSeq(calls, LAMBDA c : c.readyState = "OPEN")

\* the messages a step appended
Appended == SubSeq(messages', Len(messages) + 1, Len(messages'))

\* a Record<string, ModelResponse> without the insertion order of its keys
Mapping(cr) == {<<cr[i].key, cr[i].val>> : i \in DOMAIN cr}

SentMessage == last'.op = "sendMessage"

\* a sendMessage that passed both guards, whatever ws.send then did
Accepted == SentMessage /\ last'.res \in {"sent", "threw", "dropped"}
Handled(kind) == last'.op = kind /\ nEvents' = nEvents + 1
HandledFor(kind, m) == Handled(kind) /\ last'.m = m

(***************************************************************************)
(* C1: whenever the store's socket is absent or not OPEN, sendMessage is   *)
(* rejected locally: no chat request is transmitted and messages,          *)
(* currentResponses, isLoading and conversationId stay as they were.       *)
(***************************************************************************)
C1_RejectedUnlessOpen ==
  [][(SentMessage /\ ~IsOpen(ws))
       => /\ Transmitted(sendCalls') = Transmitted(sendCalls)
          /\ UNCHANGED <<messages, currentResponses, isLoading, conversationId>>]_vars

(***************************************************************************)
(* C2: a sendMessage issued while a turn is in flight (after a transmitted *)
(* chat request, before its chat_complete) is rejected: no second request, *)
(* no second user message, and the first turn's buffers are not touched.   *)
(***************************************************************************)
C2_OneTurnInFlight ==
  [][(SentMessage /\ turn.active)
       => /\ sendCalls' = sendCalls
          /\ messages' = messages
          /\ currentResponses' = currentResponses]_vars

(***************************************************************************)
(* C3: when chat_complete ends a turn that sendMessage started with model  *)
(* set M and that saw only inbound events since, exactly |M| assistant     *)
(* messages are appended, one per model of M and none for another model,   *)
(* and every buffer moved was terminal (isStreaming = false).              *)
(***************************************************************************)
C3_OneTerminalResponsePerModel ==
  [][(Handled("chat_complete") /\ turn.active /\ turn.clean)
       => /\ Len(Appended) = Cardinality(turn.models)
          /\ {Get(Appended[i], "model_id") : i \in DOMAIN Appended} = turn.models
          /\ \A i \in DOMAIN currentResponses : Terminal(currentResponses[i].val)]_vars

(***************************************************************************)
(* C4: for every model m that has had no terminal event, the content of    *)
(* m's buffer is the concatenation, in receipt order, of the tokens        *)
(* handled for m since the buffers were last reset, however the tokens of  *)
(* other models were interleaved with them.                                *)
(***************************************************************************)
C4_TokensInReceiptOrder ==
  \A m \in ModelIds :
    turn.term[m] = "none" =>
      IF m \in Keys(currentResponses)
      THEN /\ Has(Lookup(currentResponses, m), "content")
           /\ Lookup(currentResponses, m).content = turn.tok[m]
      ELSE turn.tok[m] = ""

\* m1 got "a" then "b" with a token of m2 handled in between
C4_Witness ==
  /\ last = Did("token", "m1", "b")
  /\ turn.tok["m1"] = "ab"
  /\ turn.tok["m2"] = "b"
  /\ Lookup(currentResponses, "m1").content = "ab"

(***************************************************************************)
(* C5: handling a token, model_complete or per-model error of model m      *)
(* changes only m's entry of currentResponses: every other entry keeps its *)
(* place and value, and messages, conversationId, isLoading and the        *)
(* channel are unchanged.                                                  *)
(***************************************************************************)
C5_OnlyOwnEntry ==
  [][\A m \in ModelIds :
       (HandledFor("token", m) \/ HandledFor("model_complete", m) \/ HandledFor("error", m))
         => /\ Keys(currentResponses') = Keys(currentResponses) \cup {m}
            /\ \A i \in DOMAIN currentResponses :
                 currentResponses[i].key # m => currentResponses'[i] = currentResponses[i]
            /\ UNCHANGED <<messages, conversationId, isLoading, channel>>]_vars

\* a per-model error of m1 was handled while m2 streams on and the turn is held
C5_Witness ==
  /\ last = Did("error", "m1", "boom")
  /\ isLoading
  /\ wsConnected
  /\ Get(Lookup(currentResponses, "m2"), "content") = "a"
  /\ Streaming(Lookup(currentResponses, "m2"))
  /\ Terminal(Lookup(currentResponses, "m1"))

(***************************************************************************)
(* C6: in a turn started by sendMessage, while the buffer of a selected     *)
(* model is streaming an inbound event never shortens its content, and     *)
(* once it is finalized (isStreaming = false) no inbound event changes its *)
(* content, error or isStreaming.                                          *)
(***************************************************************************)
C6_FinalizedNeverChanges ==
  [][\A m \in Keys(currentResponses) \cap Keys(currentResponses') :
       LET old == Lookup(currentResponses, m)
           new == Lookup(currentResponses', m)
       IN  (nEvents' = nEvents + 1 /\ turn.clean /\ m \in turn.models)
             => /\ Streaming(old) /\ Streaming(new)
                     => Len(ContentOr(new)) >= Len(ContentOr(old))
                /\ Terminal(old)
                     => /\ Get(new, "content") = Get(old, "content")
                        /\ Get(new, "error") = Get(old, "error")
                        /\ Terminal(new)]_vars

(***************************************************************************)
(* C7: in a turn started by sendMessage, a model_complete handled again    *)
(* for a selected model it was already handled for, also after             *)
(* chat_complete, produces no second response: it creates no buffer for a  *)
(* model whose response is already in messages, and chat_complete never    *)
(* moves a second message for a model.                                     *)
(***************************************************************************)
C7_ReplayedCompleteIsNoOp ==
  [][turn.clean
       => /\ \A m \in turn.completed \cap turn.models :
               HandledFor("model_complete", m)
                 => /\ Keys(currentResponses') = Keys(currentResponses)
                    /\ m \in turn.moved => m \notin Keys(currentResponses')
          /\ Handled("chat_complete") => Keys(currentResponses) \cap turn.moved = {}]_vars

(***************************************************************************)
(* C8: a buffer that is still streaming when chat_complete is handled is   *)
(* moved into messages with error "incomplete".                            *)
(***************************************************************************)
C8_StreamingMovedAsIncomplete ==
  [][Handled("chat_complete")
       => \A i \in DOMAIN currentResponses :
            Streaming(currentResponses[i].val)
              => Get(messages'[Len(messages) + i], "error") = "incomplete"]_vars

(***************************************************************************)
(* C9: a per-model error of m marks m's buffer terminal with the event's   *)
(* message as its error and leaves its content as it was, which for a      *)
(* buffer that had only received tokens is the concatenation of those      *)
(* tokens; when chat_complete then ends the turn with no further event of  *)
(* m in between, m's assistant message has that content and that error.    *)
(***************************************************************************)
C9_ErrorKeepsPartialContent ==
  [][\A m \in ModelIds :
       LET old == Lookup(currentResponses, m)
           new == Lookup(currentResponses', m)
       IN  /\ HandledFor("error", m)
                => /\ Terminal(new)
                   /\ Get(new, "error") = last'.res
                   /\ Get(new, "content") = Get(old, "content")
                   /\ (m \in Keys(currentResponses) /\ turn.term[m] = "none")
                        => Get(new, "content") = turn.tok[m]
           /\ (/\ Handled("chat_complete")
               /\ turn.active /\ turn.clean /\ m \in turn.models
               /\ turn.term[m] = "error" /\ m \notin turn.late)
                => \E i \in DOMAIN Appended :
                     /\ Get(Appended[i], "model_id") = m
                     /\ Get(Appended[i], "content") = turn.tok[m]
                     /\ Get(Appended[i], "error") = Get(old, "error")
                     /\ Get(Appended[i], "error") \in ErrorTexts]_vars

\* m1 failed after the token "a", and chat_complete has moved its response
C9_Witness ==
  /\ last = Did("chat_complete", "-", "-")
  /\ turn.clean
  /\ turn.term["m1"] = "error"
  /\ "m1" \notin turn.late
  /\ \E i \in DOMAIN messages :
       /\ Get(messages[i], "model_id") = "m1"
       /\ Get(messages[i], "content") = "a"
       /\ Get(messages[i], "error") = "boom"

(***************************************************************************)
(* C10: in every reachable state, two model-tagged events of different     *)
(* models commute: handled in either order they give the same              *)
(* currentResponses mapping and, at chat_complete, the same set of         *)
(* assistant messages.  Any two interleavings with the same per-model      *)
(* subsequences differ by such transpositions.                             *)
(***************************************************************************)
C10_OrderIndependentAcrossModels ==
  \A m1 \in ModelIds, m2 \in ModelIds :
    m1 # m2 =>
      \A e1 \in ModelEvents(m1), e2 \in ModelEvents(m2) :
        LET one == Apply(e2, Apply(e1, currentResponses))
            two == Apply(e1, Apply(e2, currentResponses))
        IN  /\ Mapping(one) = Mapping(two)
            /\ Range(AssistantMessages(one)) = Range(AssistantMessages(two))

\* m2's error was handled after m1's token, and the buffers are those of the
\* other order: the error first, then the token
C10_Witness ==
  /\ last = Did("error", "m2", "boom")
  /\ turn.active /\ turn.clean /\ turn.models = {"m1", "m2"}
  /\ turn.tok["m1"] = "a"
  /\ turn.term["m1"] = "none"
  /\ currentResponses =
       HandleToken(HandleModelError(InitialResponses(selectedModels, availableModels, <<>>),
                                    "m2", "boom"),
                   "m1", "a")

(***************************************************************************)
(* C11: while a turn is in flight, every entry of currentResponses stored  *)
(* under a selected model is a well-formed buffer: its model_id is the key *)
(* it is stored under, it has a content and its isStreaming is defined.    *)
(***************************************************************************)
WellFormed(key, r) ==
  /\ Get(r, "model_id") = key
  /\ Has(r, "content")
  /\ Has(r, "isStreaming")

C11_BuffersWellFormed ==
  \A i \in DOMAIN currentResponses :
    (turn.active /\ currentResponses[i].key \in turn.models)
      => WellFormed(currentResponses[i].key, currentResponses[i].val)

C13_FinalizedAtMostOnce ==
  [][(Handled("chat_complete") /\ turn.clean /\ ~turn.active) => Appended = <<>>]_vars

(***************************************************************************)
(* C14: sendMessage with no model selected changes nothing: no chat        *)
(* request is handed to the socket, no user message is appended, no buffer *)
(* is created, and isLoading and conversationId are as they were.          *)
(***************************************************************************)
C14_EmptySelectionRejected ==
  [][(SentMessage /\ selectedModels = <<>>)
       => UNCHANGED <<sendCalls, messages, currentResponses, isLoading, conversationId>>]_vars

\* sendMessage was called on an open channel with nothing selected
C14_Witness ==
  /\ last = Did("sendMessage", "-", "no models")
  /\ selectedModels = <<>>
  /\ IsOpen(ws)
  /\ wsConnected
  /\ sendCalls = <<>>
  /\ messages = <<>>
  /\ ~isLoading

(***************************************************************************)
(* C15: sendMessage with a prompt that is empty or only whitespace hands   *)
(* no chat request to the socket and creates no turn state: messages,      *)
(* currentResponses and isLoading are as they were.                        *)
(***************************************************************************)
C15_BlankPromptRejected ==
  [][\A p \in BlankPrompts :
       SendMessage(p) => UNCHANGED <<sendCalls, messages, currentResponses, isLoading>>]_vars

(***************************************************************************)
(* C16: after the onclose of a socket its reconnect timer fires, and when  *)
(* it has fired the store holds a socket: the one connectWebSocket then    *)
(* created, or the one it already held; and whenever the store holds no    *)
(* socket after one was created, it eventually holds one again.            *)
(***************************************************************************)
C16_ReconnectsAfterClose ==
  /\ \A s \in SocketIds :
       (sock[s] = "CLOSED") ~> (sock[s] # "CLOSED" /\ ws # NoSocket)
  /\ (ws = NoSocket /\ \E s \in SocketIds : sock[s] # "FREE") ~> (ws # NoSocket)

\* the timer of a closed socket found no socket and connected again
C16_Witness ==
  /\ last = Did("reconnectTimer", "-", "created")
  /\ ws # NoSocket
  /\ sock[ws] = "CONNECTING"
  /\ ~wsConnected

(***************************************************************************)
(* C17: at most one socket the store has created is CONNECTING or OPEN at  *)
(* any time.                                                               *)
(***************************************************************************)
Live == {s \in SocketIds : sock[s] \in {"CONNECTING", "OPEN"}}

C17_OneLiveSocket == Cardinality(Live) <= 1

(***************************************************************************)
(* C18: the close of a socket, the reconnect timer and the open of the new *)
(* socket leave the turn as it was: messages, currentResponses, isLoading  *)
(* and conversationId are unchanged and no chat_complete is recorded.      *)
(***************************************************************************)
C18_DropLeavesTurnUnresolved ==
  [][last'.op \in {"onclose", "reconnectTimer", "onopen"}
       => UNCHANGED <<messages, currentResponses, isLoading, conversationId, turn>>]_vars

\* the socket dropped after m1's model_complete and before m2's, and the timer
\* has reconnected: the turn is still held with both buffers and no response
C18_Witness ==
  /\ last = Did("reconnectTimer", "-", "created")
  /\ turn.active /\ turn.clean
  /\ isLoading
  /\ Len(messages) = 1
  /\ Terminal(Lookup(currentResponses, "m1"))
  /\ "m2" \in Keys(currentResponses)
  /\ Streaming(Lookup(currentResponses, "m2"))

(***************************************************************************)
(* C19: right after an accepted sendMessage the keys of currentResponses   *)
(* are exactly the selected models, and every entry is a fresh buffer of   *)
(* its key: content "", isStreaming true, error null, null token counts    *)
(* and latency, whatever buffers were there before.                        *)
(***************************************************************************)
C19_FreshBuffers ==
  [][Accepted
       => /\ Keys(currentResponses') = Range(selectedModels)
          /\ Len(currentResponses') = Cardinality(Range(selectedModels))
          /\ \A i \in DOMAIN currentResponses' :
               LET r == currentResponses'[i].val
               IN  /\ Get(r, "model_id") = currentResponses'[i].key
                   /\ Get(r, "content") = ""
                   /\ Has(r, "isStreaming") /\ r.isStreaming = TRUE
                   /\ Get(r, "error") = Null
                   /\ Get(r, "tokens_input") = Null
                   /\ Get(r, "tokens_output") = Null
                   /\ Get(r, "latency_ms") = Null]_vars

\* a second turn was started over the buffers of a turn that had received events
\* and was never completed
C19_Witness ==
  /\ last = Did("sendMessage", "-", "sent")
  /\ Len(sendCalls) = 2
  /\ nEvents > 0
  /\ turn.active /\ turn.clean
  /\ Keys(currentResponses) = Range(selectedModels)
  /\ \A i \in DOMAIN currentResponses : ContentOr(currentResponses[i].val) = ""

(***************************************************************************)
(* C20: an accepted sendMessage(p) appends exactly one message, a user     *)
(* message whose content is p as given, at the end of messages, and it has *)
(* done so when the request is handed to the socket, also when ws.send     *)
(* then throws; a rejected sendMessage leaves messages as it was.          *)
(***************************************************************************)
C20_OneUserMessagePerSend ==
  [][\A p \in Prompts \cup BlankPrompts :
       SendMessage(p)
         => IF Accepted
            THEN /\ Len(messages') = Len(messages) + 1
                 /\ SubSeq(messages', 1, Len(messages)) = messages
                 /\ messages'[Len(messages')].role = "user"
                 /\ messages'[Len(messages')].content = p
                 /\ Len(sendCalls') = Len(sendCalls) + 1
                 /\ sendCalls'[Len(sendCalls')].data.message = p
            ELSE messages' = messages]_vars

\* ws.send threw on a socket that was still connecting: the user message, with
\* its text untrimmed, is in messages
C20_Witness ==
  /\ last = Did("sendMessage", "-", "threw")
  /\ Len(messages) = 1
  /\ messages[1].role = "user"
  /\ messages[1].content = "  "
  /\ sendCalls[1].readyState = "CONNECTING"

(***************************************************************************)
(* C21: every chat request carries the conversationId the store holds when *)
(* it is sent (null while no conversation is bound); handling              *)
(* conversation_started{c} sets conversationId to c and changes nothing    *)
(* else; and conversationId changes only there and when a conversation is  *)
(* loaded or cleared.                                                      *)
(***************************************************************************)
C21_ConversationBinding ==
  [][/\ Accepted => sendCalls'[Len(sendCalls')].data.conversation_id = conversationId
     /\ \A c \in ConvIds :
          ConversationStarted(c)
            => /\ conversationId' = c
               /\ UNCHANGED <<messages, isLoading, currentResponses, storeModels,
                              channel, sendCalls>>
     /\ conversationId' # conversationId
          => last'.op \in {"conversation_started", "setCurrentConversation",
                           "clearCurrentConversation"}]_vars

\* the first request was sent unbound, conversation_started bound c1, and the
\* second request of the same view carries c1
C21_Witness ==
  /\ last = Did("sendMessage", "-", "sent")
  /\ Len(sendCalls) = 2
  /\ sendCalls[1].data.conversation_id = Null
  /\ sendCalls[2].data.conversation_id = "c1"
  /\ conversationId = "c1"
  /\ Len(messages) >= 2
  /\ messages[1] = UserMessage("hi")

(***************************************************************************)
(* Vocabulary of the selection                                             *)
(***************************************************************************)
\* the turn of a finalized assistant message: the user message it follows
TurnOf(msgs, i) ==
  CHOOSE j \in 1..(i - 1) :
    msgs[j].role = "user" /\ \A k \in (j + 1)..(i - 1) : msgs[k].role # "user"

IsSelected(msg) == Has(msg, "is_selected") /\ msg.is_selected

\* C22: after any successful selections of a best response, at most one
\* assistant message of any one turn has is_selected = true (selecting one
\* clears the flag of its siblings in the same update), also in a turn that
\* chat_complete finalized in this session.
C22_SelectionClearsSiblings ==
  [][\A r \in selects :
       (SelectBestResponseOk(r) /\ r.messages = messages)
         => \A i, j \in InTurn(messages') :
              (/\ Get(messages'[i], "id") = r.messageId
               /\ j # i
               /\ TurnOf(messages', i) = TurnOf(messages', j))
                => IsSelected(messages'[i]) /\ ~IsSelected(messages'[j])]_vars

\* C23: the selection of a best response is never issued against a response
\* that is still in currentResponses: every request made names an assistant
\* message of the finalized messages that has an id and no error.
C23_SelectOnlyFinalized ==
  [][/\ \A k \in DOMAIN currentResponses :
          ~HandleSelect(StreamingCard(currentResponses[k].val))
     /\ \A r \in selects' \ selects :
          \E i \in DOMAIN messages :
            /\ messages[i].role = "assistant"
            /\ Truthy(Get(messages[i], "id"))
            /\ Get(messages[i], "id") = r.messageId
            /\ ~Truthy(Get(messages[i], "error"))]_vars

\* a finalized message is selected while the next turn's buffers are shown
C23_Witness ==
  /\ last = Did("handleSelectBest", "-", "m1-0")
  /\ currentResponses # <<>>
  /\ \E r \in selects : r.messageId = "m1-0"

\* C24: a turn-level error (error without model_id) fails the whole turn: it
\* releases isLoading and leaves no assistant response of the turn behind,
\* neither a message appended to messages nor a buffer in currentResponses.
C24_TurnErrorFailsTurn ==
  [][(HandledFor("error", "-") /\ turn.active /\ turn.clean)
       => /\ isLoading' = FALSE
          /\ messages' = messages
          /\ currentResponses' = <<>>]_vars

\* C25: isLoading, set at an accepted sendMessage, stays true until the
\* turn's chat_complete or a turn-level error is handled; nothing else
\* releases it while the turn is in flight.
C25_LoadingHeldForTurn ==
  [][(turn.active /\ isLoading /\ ~isLoading')
       => (Handled("chat_complete") \/ HandledFor("error", "-"))]_vars

\* C26: the submit handler of the chat input calls sendMessage exactly when
\* the trimmed input is non-empty, wsConnected is true, a model is selected
\* and isLoading is false, and it passes the trimmed text; otherwise it calls
\* nothing and keeps the typed input.
C26_SubmitGuarded ==
  [][HandleSubmit
       => /\ SentMessage <=> (/\ Trim(input) # ""
                              /\ wsConnected
                              /\ Len(selectedModels) > 0
                              /\ ~isLoading)
          /\ Accepted
               => /\ sendCalls'[Len(sendCalls')].data.message = Trim(input)
                  /\ Appended = <<UserMessage(Trim(input))>>
          /\ ~SentMessage => UNCHANGED <<input, storeChat, sendCalls>>]_vars

\* " hi " was typed and submitted: the request carries "hi"
C26_Witness ==
  /\ last = Did("sendMessage", "-", "sent")
  /\ input = ""
  /\ Len(sendCalls) = 1
  /\ sendCalls[1].data.message = "hi"
  /\ messages = <<UserMessage("hi")>>

\* C27: in every reachable state wsConnected = true implies that ws is a
\* socket and that socket is OPEN; wsConnected is never true while ws is
\* null, still connecting or already closed.
C27_FlagMatchesSocket == wsConnected => (ws # NoSocket /\ sock[ws] = "OPEN")

\* C28: after setCurrentConversation or clearCurrentConversation with a turn
\* in flight, the inbound events of that turn do not change conversationId,
\* create no buffer in currentResponses and append no message to the messages
\* of the conversation now shown.
C28_SwitchIsolates ==
  [][(turn.active /\ ~turn.clean /\ nEvents' = nEvents + 1)
       => /\ conversationId' = conversationId
          /\ Keys(currentResponses') \subseteq Keys(currentResponses)
          /\ messages' = messages]_vars

\* the messages without their is_selected flags
Unflagged(msgs) ==
  [i \in DOMAIN msgs |-> Pick(msgs[i], DOMAIN msgs[i] \ {"is_selected"})]

\* C29: a selection of a best response loses no concurrent update: when the
\* request has succeeded, messages differs from the store's messages just
\* before only in is_selected flags (what sendMessage or chat_complete added
\* during the await is still there); when it has failed, messages is as it was.
C29_SelectionKeepsUpdates ==
  [][\A r \in selects :
       /\ SelectBestResponseOk(r) => Unflagged(messages') = Unflagged(messages)
       /\ SelectBestResponseFailed(r) => messages' = messages]_vars

\* C30: the last selection wins when conversations are loaded: once no fetch
\* is awaited any more and the fetch of the conversation selected last has
\* succeeded, the store shows that conversation with its messages, whatever
\* order the responses arrived in.
C30_LastSelectionWins ==
  [][(fetches.awaited # <<>> /\ fetches'.awaited = <<>> /\ fetches'.asked # Null)
       => /\ conversationId' = fetches'.asked
          /\ messages' = History(fetches'.asked)]_vars


====
